---- MODULE Spec2Model ----
(***************************************************************************)
(* Tic-tac-toe player (Search/tictactoe/tictactoe.py): the board model     *)
(* (player, actions, result, winner, terminal, utility) and the minimax    *)
(* search with alpha-beta pruning and shuffled exploration order           *)
(* (minimax, maxValue, minValue).                                          *)
(*                                                                         *)
(* A board is a 3-tuple of 3-tuples of cells; Python's board[i][j] with    *)
(* zero-based i, j is board[i + 1][j + 1] here.  An action is <<i, j>>     *)
(* with Python's zero-based coordinates.                                   *)
(***************************************************************************)
EXTENDS Integers, Sequences, FiniteSets, TLC

VARIABLES
    board,      \* the current board of the game
    prev,       \* the board the last operation was called on
    act,        \* the action last given to result (NoAction before any)
    outcome,    \* how the last operation ended: "init", "ok" (result returned a board),
                \* "InvalidAction" (result raised Exception('Not a valid action!')),
                \* "IndexError" (result raised IndexError), "returned" (minimax
                \* returned ret), "searched" (a root maxValue/minValue returned sres)
    ret,        \* what minimax last returned: an action, or NoAction for None
    sres,       \* <<value, action>> last returned by a root maxValue/minValue call
    selfplay,   \* TRUE while every move so far was result(board, minimax(board))
    moves,      \* the number of moves made on board since initial_state
    pc,         \* "idle", or "running" while a maxValue/minValue invocation is open
    call,       \* the open invocation: its function, arguments and whether it took the base case
    loop        \* the state of the open invocation's for loop

vars == <<board, prev, act, outcome, ret, sres, selfplay, moves, pc, call, loop>>

----------------------------------------------------------------------------
(* Constants of the program *)

X == "X"
O == "O"
None == "None"
EMPTY == None
\* None where an action is expected (best_action = None, minimax returning None)
NoAction == <<>>
\* a depth budget smaller than the games are long
ACCURACYShort == 2 - 1
ACCURACY == 999999

\* float('-inf') and float('inf'): only ever compared with utilities in -1..1
NegInf == -2
PosInf == 2

Max(a, b) == IF a >= b THEN a ELSE b
Min(a, b) == IF a <= b THEN a ELSE b

----------------------------------------------------------------------------
(* Board model *)

Cells == {X, O, EMPTY}
Row == {<<a, b, c>> : a \in Cells, b \in Cells, c \in Cells}
\* every 3x3 grid over {X, O, EMPTY}
AllBoards == {<<r0, r1, r2>> : r0 \in Row, r1 \in Row, r2 \in Row}

initial_state ==
    << <<EMPTY, EMPTY, EMPTY>>,
       <<EMPTY, EMPTY, EMPTY>>,
       <<EMPTY, EMPTY, EMPTY>> >>

\* board[i][j] for in-range zero-based i, j
At(b, i, j) == b[i + 1][j + 1]

Positions == {<<i, j>> : i \in 0..2, j \in 0..2}

CountOf(b, m) == Cardinality({p \in Positions : At(b, p[1], p[2]) = m})

\* sum(1 if elem == X else -1 if elem == O else 0 ...)
count(b) == CountOf(b, X) - CountOf(b, O)

\* player with the test on count reversed
playerReversed(b) == IF count(b) = 0 THEN O ELSE X
player(b) == IF count(b) = 0 THEN X ELSE O

\* the positions of the EMPTY cells; the list's order is immaterial to every
\* caller (terminal compares it with [], the search shuffles it)
actions(b) == {p \in Positions : At(b, p[1], p[2]) = EMPTY}

\* Python's list indexing on a list of length 3: -3..-1 count from the end,
\* anything else outside 0..2 raises IndexError
InRange(i) == i \in -3..2
Idx(i) == IF i < 0 THEN i + 3 ELSE i

\* how result(board, action) ends
resultOutcome(b, a) ==
    IF ~InRange(a[1]) \/ ~InRange(a[2]) THEN "IndexError"
    ELSE IF At(b, Idx(a[1]), Idx(a[2])) # EMPTY THEN "InvalidAction"
    ELSE "ok"

\* the board result(board, action) returns when it returns
result(b, a) ==
    LET i == Idx(a[1])
        j == Idx(a[2])
    IN  [b EXCEPT ![i + 1] = [b[i + 1] EXCEPT ![j + 1] = player(b)]]

\* the mark of row i when it is complete, else "no"
RowCheck(b, i) ==
    At(b, i, 0) = At(b, i, 1) /\ At(b, i, 1) = At(b, i, 2) /\ At(b, i, 0) # EMPTY
ColCheck(b, i) ==
    At(b, 0, i) = At(b, 1, i) /\ At(b, 1, i) = At(b, 2, i) /\ At(b, 0, i) # EMPTY

RECURSIVE winnerFrom(_, _)
\* the loop "for i in range(3)" of winner from index i on, then the diagonals
winnerFrom(b, i) ==
    IF i < 3 THEN
        IF RowCheck(b, i) THEN At(b, i, 0)
        ELSE IF ColCheck(b, i) THEN At(b, 0, i)
        ELSE winnerFrom(b, i + 1)
    ELSE IF At(b, 0, 0) = At(b, 1, 1) /\ At(b, 1, 1) = At(b, 2, 2) /\ At(b, 0, 0) # EMPTY
        THEN At(b, 0, 0)
    ELSE IF At(b, 0, 2) = At(b, 1, 1) /\ At(b, 1, 1) = At(b, 2, 0) /\ At(b, 0, 2) # EMPTY
        THEN At(b, 0, 2)
    ELSE None

RECURSIVE winnerAnyEqual(_, _)
\* winner without the tests "!= EMPTY"
winnerAnyEqual(b, i) ==
    IF i < 3 THEN
        IF At(b, i, 0) = At(b, i, 1) /\ At(b, i, 1) = At(b, i, 2) THEN At(b, i, 0)
        ELSE IF At(b, 0, i) = At(b, 1, i) /\ At(b, 1, i) = At(b, 2, i) THEN At(b, 0, i)
        ELSE winnerAnyEqual(b, i + 1)
    ELSE IF At(b, 0, 0) = At(b, 1, 1) /\ At(b, 1, 1) = At(b, 2, 2) THEN At(b, 0, 0)
    ELSE IF At(b, 0, 2) = At(b, 1, 1) /\ At(b, 1, 1) = At(b, 2, 0) THEN At(b, 0, 2)
    ELSE None

winnerUnchecked(b) == winnerAnyEqual(b, 0)

winner(b) == winnerFrom(b, 0)

\* winner(board) or actions(board) == [], as a truth value
terminal(b) == winner(b) # None \/ actions(b) = {}

\* {X : 1, O : -1}.get(winner(board), 0)
utility(b) ==
    LET w == winner(b)
    IN  IF w = X THEN 1 ELSE IF w = O THEN -1 ELSE 0

----------------------------------------------------------------------------
(* Search: maxValue and minValue *)

\* the state of the for loop of maxValue/minValue:
\*   <<rest, v, best_action, alpha, beta, brk>>
\* rest holds the actions of the shuffled list not yet taken (random.shuffle:
\* any of them can come next), brk is set once the loop has hit its break
LoopStart(b, v0, alpha, beta) ==
    <<actions(b), v0, NoAction, alpha, beta, FALSE>>

Rest(s) == s[1]
V(s) == s[2]
BestAction(s) == s[3]
Alpha(s) == s[4]
Beta(s) == s[5]
Broke(s) == s[6]

LoopDone(s) == Broke(s) \/ Rest(s) = {}

\* maxValue's loop body with "if v <= score" for "if v < score"
maxIterLoose(s, action, score) ==
    LET v == IF s[2] <= score THEN score ELSE s[2]
        best_action == IF s[2] <= score THEN action ELSE s[3]
        alpha == Max(s[4], v)
    IN  <<s[1] \ {action}, v, best_action, alpha, s[5], s[5] <= alpha>>

\* maxValue's loop body with "if v >= alpha: break" for "if beta <= alpha: break"
maxIterFirstCut(s, action, score) ==
    LET v == IF s[2] < score THEN score ELSE s[2]
        best_action == IF s[2] < score THEN action ELSE s[3]
        alpha == Max(s[4], v)
    IN  <<s[1] \ {action}, v, best_action, alpha, s[5], v >= alpha>>

\* one pass of the body of maxValue's loop, for the action taken and the score
\* the call of minValue on result(board, action) returned
maxIter(s, action, score) ==
    LET v == IF s[2] < score THEN score ELSE s[2]
        best_action == IF s[2] < score THEN action ELSE s[3]
        alpha == Max(s[4], v)
    IN  <<s[1] \ {action}, v, best_action, alpha, s[5], s[5] <= alpha>>

\* minValue's loop body with "if v <= beta: break" for "if beta <= alpha: break"
minIterFirstCut(s, action, score) ==
    LET v == IF s[2] > score THEN score ELSE s[2]
        best_action == IF s[2] > score THEN action ELSE s[3]
        beta == Min(s[5], v)
    IN  <<s[1] \ {action}, v, best_action, s[4], beta, v <= beta>>

\* minValue's loop body with "if v >= score" for "if v > score"
minIterLoose(s, action, score) ==
    LET v == IF s[2] >= score THEN score ELSE s[2]
        best_action == IF s[2] >= score THEN action ELSE s[3]
        beta == Min(s[5], v)
    IN  <<s[1] \ {action}, v, best_action, s[4], beta, beta <= s[4]>>

\* one pass of the body of minValue's loop, for the action taken and the score
\* the call of maxValue on result(board, action) returned
minIter(s, action, score) ==
    LET v == IF s[2] > score THEN score ELSE s[2]
        best_action == IF s[2] > score THEN action ELSE s[3]
        beta == Min(s[5], v)
    IN  <<s[1] \ {action}, v, best_action, s[4], beta, beta <= s[4]>>

\* func_map of minimax; the recursion alternates the two functions as result
\* alternates the players
FuncOf(b) == IF player(b) = X THEN "maxValue" ELSE "minValue"
Other(fn) == IF fn = "maxValue" THEN "minValue" ELSE "maxValue"

Iter(fn, s, action, score) ==
    IF fn = "maxValue" THEN maxIter(s, action, score) ELSE minIter(s, action, score)

\* v = float('-inf') in maxValue, v = float('inf') in minValue
StartV(fn) == IF fn = "maxValue" THEN NegInf ELSE PosInf

\* "if depth < 0 or terminal(board)"
BaseCase(b, depth) == depth < 0 \/ terminal(b)

\* the base case returning an action instead of None
BaseReturnAction(b) == <<utility(b), <<0, 0>>>>

\* "return utility(board), None"
BaseReturn(b) == <<utility(b), NoAction>>

\* A call recurses once per cell it fills, so of its depth budget it can only
\* ever test the first (number of empty cells) units: calls on the same board
\* whose budgets agree up to that number run alike.  The memo below is keyed
\* by the budget cut off there.
Empties(b) == Cardinality(actions(b))
Marks(b) == 9 - Empties(b)
DepthKey(depth, b) == Min(depth, Empties(b))

\* The caller of a recursive call reads the score alone ("score, _ = ..."):
\* where only the scores are wanted (keep = FALSE) the loop states that differ
\* in best_action alone are merged.
Kept(keep, s) == IF keep THEN s ELSE <<s[1], s[2], NoAction, s[4], s[5], s[6]>>

\* every pass the loop can make from loop state s: any remaining action a, and
\* any score the call on result(board, a) can return; kids[a][ck][window][1]
\* holds those scores, ck being the depth key of depth - 1
IterSet(fn, ck, keep, s, kids) ==
    UNION { { Kept(keep, Iter(fn, s, a, score)) :
                score \in kids[a][ck][<<s[4], s[5]>>][1] } :
            a \in s[1] }

RECURSIVE LoopRun(_, _, _, _, _, _)
\* the <<v, best_action>> the loop can end with ("return v, best_action"),
\* from the loop states S, added to those already collected in out
LoopRun(fn, ck, keep, S, out, kids) ==
    IF S = {} THEN out
    ELSE LET nx == UNION {IterSet(fn, ck, keep, s, kids) : s \in S}
             done == {n \in nx : LoopDone(n)}
         IN  LoopRun(fn, ck, keep, nx \ done,
                     out \cup {<<n[2], n[3]>> : n \in done}, kids)

\* what fn(board, depth, alpha, beta) can return, over every order of the
\* shuffle here and in the calls below (dk: the depth key of depth)
ValueSet(fn, b, dk, alpha, beta, keep, kids) ==
    IF BaseCase(b, dk) THEN {BaseReturn(b)}
    ELSE LoopRun(fn, Min(dk - 1, Empties(b) - 1), keep,
                 {LoopStart(b, StartV(fn), alpha, beta)}, {}, kids)

----------------------------------------------------------------------------
(* The boards of a game and the memo of the search over them *)

RECURSIVE ReachAt(_)
\* the boards m legal moves away from initial_state (a game ends at a terminal board)
ReachAt(m) ==
    IF m = 0 THEN {initial_state}
    ELSE UNION { {result(b, a) : a \in actions(b)} :
                 b \in {c \in ReachAt(m - 1) : ~terminal(c)} }

Reachable == UNION {ReachAt(m) : m \in 0..9}

Bounds == {NegInf, -1, 0, 1, PosInf}
\* a call is only made while alpha < beta: the loop breaks otherwise
Windows == {w \in Bounds \X Bounds : w[1] < w[2]}

\* the depth keys calls on a board of m marks can have: the root call has
\* depth ACCURACY, and each call below it one less
DepthKeys(m) == {Min(ACCURACY - k, 9 - m) : k \in 0..m}

\* evaluates every value of the function f
Force(f) == f @@ <<>>

\* the memo of the calls on board b, by depth key and window: first the scores
\* a call can return; second, for the window of the root call minimax makes,
\* the <<v, best_action>> it can return
BoardMemo(b, next) ==
    LET fn == FuncOf(b)
        kids == Force([a \in actions(b) |-> next[result(b, a)]])
    IN  Force([dk \in DepthKeys(Marks(b)) |->
            Force([w \in Windows |->
                IF w = <<NegInf, PosInf>>
                THEN LET rs == ValueSet(fn, b, dk, w[1], w[2], TRUE, kids)
                     IN  <<{r[1] : r \in rs}, rs>>
                ELSE <<{r[1] : r \in ValueSet(fn, b, dk, w[1], w[2], FALSE, kids)}>>])])

LevelMemo(m, next) == Force([b \in ReachAt(m) |-> BoardMemo(b, next)])

RECURSIVE BuildMemo(_, _)
BuildMemo(m, memo) ==
    IF m < 0 THEN memo
    ELSE BuildMemo(m - 1,
            (m :> LevelMemo(m, IF m = 9 THEN <<>> ELSE memo[m + 1])) @@ memo)

\* SearchMemo[m][b][dk][<<alpha, beta>>], for the boards b of m marks
SearchMemo == BuildMemo(9, <<>>)

\* the scores FuncOf(b)(b, depth, alpha, beta) can return
Scores(b, depth, alpha, beta) ==
    SearchMemo[Marks(b)][b][DepthKey(depth, b)][<<alpha, beta>>][1]

\* the <<v, best_action>> FuncOf(b)(b, depth, alpha, beta) can return, kept for
\* alpha = -inf, beta = inf
Returns(b, depth, alpha, beta) ==
    SearchMemo[Marks(b)][b][DepthKey(depth, b)][<<alpha, beta>>][2]

\* maxValue(board, depth, alpha, beta), called where X is to move
maxValue(b, depth, alpha, beta) == Returns(b, depth, alpha, beta)

\* minValue(board, depth, alpha, beta), called where O is to move
minValue(b, depth, alpha, beta) == Returns(b, depth, alpha, beta)

\* func_map[player(board)](board, ACCURACY, float('-inf'), float('inf'))
RootCall(b) ==
    IF player(b) = X THEN maxValue(b, ACCURACY, NegInf, PosInf)
    ELSE minValue(b, ACCURACY, NegInf, PosInf)

\* what minimax(board) can return
minimax(b) ==
    IF b = initial_state THEN {<<0, 0>>}
    ELSE {r[2] : r \in RootCall(b)}

----------------------------------------------------------------------------
(* The game: moves, calls of minimax, self-play *)

NoFrame == [fn |-> "none", board |-> initial_state, depth |-> 0,
            alpha |-> 0, beta |-> 0, base |-> FALSE]
NoLoop == <<{}, 0, NoAction, 0, 0, FALSE>>
NoResult == <<0, NoAction>>

Init ==
    /\ board = initial_state
    /\ prev = initial_state
    /\ act = NoAction
    /\ outcome = "init"
    /\ ret = NoAction
    /\ sres = NoResult
    /\ selfplay = TRUE
    /\ moves = 0
    /\ pc = "idle"
    /\ call = NoFrame
    /\ loop = NoLoop

\* a caller replaces the board by result(board, a) for a legal action a,
\* while the game is not over
Play(a) ==
    /\ ~terminal(board)
    /\ a \in actions(board)
    /\ board' = result(board, a)
    /\ prev' = board
    /\ act' = a
    /\ outcome' = "ok"
    /\ ret' = NoAction
    /\ sres' = NoResult
    /\ selfplay' = FALSE
    /\ moves' = moves + 1
    /\ UNCHANGED <<pc, call, loop>>

\* a call of minimax(board), on any board of the game
MinimaxCall ==
    /\ \E r \in minimax(board) : ret' = r
    /\ prev' = board
    /\ act' = NoAction
    /\ outcome' = "returned"
    /\ sres' = NoResult
    /\ UNCHANGED <<board, selfplay, moves, pc, call, loop>>

\* a root call of maxValue/minValue as minimax makes it, on any board of the game
SearchRoot ==
    /\ \E r \in RootCall(board) : sres' = r
    /\ prev' = board
    /\ act' = NoAction
    /\ outcome' = "searched"
    /\ ret' = NoAction
    /\ UNCHANGED <<board, selfplay, moves, pc, call, loop>>

\* a step of self-play: board = result(board, minimax(board)) until terminal(board)
SelfMove ==
    /\ selfplay
    /\ ~terminal(board)
    /\ \E a \in minimax(board) :
        /\ a # NoAction
        /\ resultOutcome(board, a) = "ok"
        /\ board' = result(board, a)
        /\ act' = a
        /\ ret' = a
    /\ prev' = board
    /\ outcome' = "ok"
    /\ sres' = NoResult
    /\ moves' = moves + 1
    /\ UNCHANGED <<selfplay, pc, call, loop>>

Next ==
    \/ \E a \in Positions : Play(a)
    \/ MinimaxCall
    \/ SearchRoot
    \/ SelfMove

Spec == Init /\ [][Next]_vars

\* self-play alone; the loop of self-play goes on while the game is not over
SelfPlaySpec == Init /\ [][SelfMove]_vars /\ WF_vars(SelfMove)

----------------------------------------------------------------------------
(* The board model on its own: result on any grid, with any coordinates *)

InitBoard ==
    /\ board \in AllBoards
    /\ prev = board
    /\ act = NoAction
    /\ outcome = "init"
    /\ ret = NoAction
    /\ sres = NoResult
    /\ selfplay = FALSE
    /\ moves = Marks(board)
    /\ pc = "idle"
    /\ call = NoFrame
    /\ loop = NoLoop

\* result(board, a) for an action a of actions(board), on any grid
BoardMove(a) ==
    /\ a \in actions(board)
    /\ board' = result(board, a)
    /\ prev' = board
    /\ act' = a
    /\ outcome' = "ok"
    /\ moves' = moves + 1
    /\ UNCHANGED <<ret, sres, selfplay, pc, call, loop>>

BoardSpec == InitBoard /\ [][\E a \in Positions : BoardMove(a)]_vars

\* the coordinates tried: -CoordSpan .. CoordSpan - 1
CoordSpan == 4
Coords == (0 - CoordSpan)..(CoordSpan - 1)

InitResult ==
    /\ board \in Reachable
    /\ prev = board
    /\ act = NoAction
    /\ outcome = "init"
    /\ ret = NoAction
    /\ sres = NoResult
    /\ selfplay = FALSE
    /\ moves = Marks(board)
    /\ pc = "idle"
    /\ call = NoFrame
    /\ loop = NoLoop

\* one call result(board, (i, j)), for any pair of integers, on a board of the
\* game: the caller takes the board returned, or is left with its board when
\* result raises
ResultCall(i, j) ==
    LET a == <<i, j>>
        o == resultOutcome(board, a)
    IN  /\ outcome = "init"
        /\ outcome' = o
        /\ act' = a
        /\ prev' = board
        /\ board' = IF o = "ok" THEN result(board, a) ELSE board
        /\ moves' = IF o = "ok" THEN moves + 1 ELSE moves
        /\ UNCHANGED <<ret, sres, selfplay, pc, call, loop>>

ResultSpec == InitResult /\ [][\E i \in Coords, j \in Coords : ResultCall(i, j)]_vars

----------------------------------------------------------------------------
(* The search call by call: one invocation of maxValue/minValue at a time *)

\* the root boards looked at have at most MaxRootEmpty empty cells
MaxRootEmpty == 4
RootBoards ==
    {b \in Reachable : Empties(b) <= MaxRootEmpty /\ b # initial_state}

Frame(fn, b, depth, alpha, beta) ==
    [fn |-> fn, board |-> b, depth |-> depth, alpha |-> alpha, beta |-> beta,
     base |-> BaseCase(b, depth)]

\* minimax(b) opens the root call, for any root board b
Enter ==
    /\ pc = "idle"
    /\ outcome = "init"
    /\ \E b \in RootBoards :
        /\ call' = Frame(FuncOf(b), b, ACCURACY, NegInf, PosInf)
        /\ loop' = IF BaseCase(b, ACCURACY) THEN NoLoop
                   ELSE LoopStart(b, StartV(FuncOf(b)), NegInf, PosInf)
    /\ pc' = "running"
    /\ UNCHANGED <<board, prev, act, outcome, ret, sres, selfplay, moves>>

Looping == pc = "running" /\ ~call.base /\ ~LoopDone(loop)

\* the open invocation takes action a from its shuffled list, and the call on
\* result(board, a) returns score: one pass of the loop
Iterate(a, score) ==
    /\ Looping
    /\ a \in Rest(loop)
    /\ score \in Scores(result(call.board, a), call.depth - 1, Alpha(loop), Beta(loop))
    /\ loop' = Iter(call.fn, loop, a, score)
    /\ UNCHANGED <<board, prev, act, outcome, ret, sres, selfplay, moves, pc, call>>

\* follow the call the open invocation makes for action a
Descend(a) ==
    /\ Looping
    /\ a \in Rest(loop)
    /\ LET child == result(call.board, a)
           fn == Other(call.fn)
       IN  /\ call' = Frame(fn, child, call.depth - 1, Alpha(loop), Beta(loop))
           /\ loop' = IF BaseCase(child, call.depth - 1) THEN NoLoop
                      ELSE LoopStart(child, StartV(fn), Alpha(loop), Beta(loop))
    /\ UNCHANGED <<board, prev, act, outcome, ret, sres, selfplay, moves, pc>>

\* the open invocation returns: utility(board), None in the base case, else
\* v, best_action
Return ==
    /\ pc = "running"
    /\ call.base \/ LoopDone(loop)
    /\ sres' = IF call.base THEN BaseReturn(call.board)
               ELSE <<V(loop), BestAction(loop)>>
    /\ prev' = call.board
    /\ outcome' = "searched"
    /\ pc' = "idle"
    /\ call' = NoFrame
    /\ loop' = NoLoop
    /\ UNCHANGED <<board, act, ret, selfplay, moves>>

NextSearch ==
    \/ Enter
    \/ \E a \in Positions, score \in {-1, 0, 1} : Iterate(a, score)
    \/ \E a \in Positions : Descend(a)
    \/ Return

SearchSpec == Init /\ [][NextSearch]_vars

----------------------------------------------------------------------------
(* Reference notions the properties are stated with *)

SetMax(S) == CHOOSE x \in S : \A y \in S : x >= y
SetMin(S) == CHOOSE x \in S : \A y \in S : x <= y

\* plain minimax, no pruning and no depth budget: the utility of a terminal
\* board, else the greatest (X to move) or least (O to move) value of the
\* boards one move away
PlainLevel(m, next) ==
    Force([b \in ReachAt(m) |->
        IF terminal(b) THEN utility(b)
        ELSE LET vals == {next[result(b, a)] : a \in actions(b)}
             IN  IF player(b) = X THEN SetMax(vals) ELSE SetMin(vals)])

RECURSIVE BuildPlain(_, _)
BuildPlain(m, memo) ==
    IF m < 0 THEN memo
    ELSE BuildPlain(m - 1,
            (m :> PlainLevel(m, IF m = 9 THEN <<>> ELSE memo[m + 1])) @@ memo)

PlainMemo == BuildPlain(9, <<>>)

\* the plain minimax value of a board of the game
PlainValue(b) == PlainMemo[Marks(b)][b]

\* the eight lines of the board
Lines ==
    { {<<i, 0>>, <<i, 1>>, <<i, 2>>} : i \in 0..2 } \cup
    { {<<0, j>>, <<1, j>>, <<2, j>>} : j \in 0..2 } \cup
    { {<<0, 0>>, <<1, 1>>, <<2, 2>>}, {<<0, 2>>, <<1, 1>>, <<2, 0>>} }

\* the empty cells that complete a line holding two marks m
Completing(b, m) ==
    { p \in Positions :
        /\ At(b, p[1], p[2]) = EMPTY
        /\ \E L \in Lines :
            /\ p \in L
            /\ \A q \in L \ {p} : At(b, q[1], q[2]) = m }

\* minimax was called on the board prev, not terminal, and returned ret
Returned == outcome = "returned" /\ ~terminal(prev)

----------------------------------------------------------------------------
(* Properties *)

\* C1: self-play from initial_state ends, after at most 9 moves, on a board
\* with no winner and utility 0, whatever the shuffles
SelfPlayEndsInDraw ==
    /\ [](terminal(board) => winner(board) = None /\ utility(board) = 0 /\ moves <= 9)
    /\ <>terminal(board)

\* C1 witness: self-play has reached the end of a game
SelfPlayOver == selfplay /\ terminal(board) /\ moves = 9 /\ outcome = "ok"

\* C2: on a board of the game that is not terminal, minimax returns a legal
\* action whose resulting board has the plain minimax value of the board
MinimaxOptimal ==
    Returned =>
        /\ ret \in actions(prev)
        /\ PlainValue(result(prev, ret)) = PlainValue(prev)

\* C2 witness: minimax returned on a searched board that also has a worse move
OptimalAmongWorse ==
    /\ Returned
    /\ prev # initial_state
    /\ \E a \in actions(prev) : PlainValue(result(prev, a)) # PlainValue(prev)

\* X is to move on prev and can complete a line at once
XCanComplete == Returned /\ player(prev) = X /\ Completing(prev, X) # {}

\* C3 as claimed: with a line X can complete, minimax returns a completing cell
ForcedWinCompletes ==
    XCanComplete => ret # NoAction /\ winner(result(prev, ret)) = X

\* C3 amended: with a line X can complete, minimax returns a legal action after
\* which X wins under plain minimax (value 1), not always by completing a line
ForcedWinKept ==
    XCanComplete => ret \in actions(prev) /\ PlainValue(result(prev, ret)) = 1

\* C3 witness: minimax passed over the completing cell for another winning move
WinDeferred ==
    XCanComplete /\ ret # NoAction /\ winner(result(prev, ret)) # X

\* X is to move on prev, cannot complete a line, and O threatens to
MustDefend ==
    /\ Returned
    /\ player(prev) = X
    /\ Completing(prev, X) = {}
    /\ Completing(prev, O) # {}

\* C4 as claimed: minimax returns a blocking cell
ForcedDefenseBlocks == MustDefend => ret \in Completing(prev, O)

\* C4 amended: minimax returns a blocking cell unless the board is already lost
\* for X (plain minimax value -1)
ForcedDefenseUnlessLost ==
    MustDefend /\ PlainValue(prev) # -1 => ret \in Completing(prev, O)

\* C4 witness: X had to defend on a board not lost, and minimax returned
DefendedNotLost == MustDefend /\ PlainValue(prev) # -1

\* C5: the value of a root call equals the plain minimax value of the board
PruningKeepsValue == outcome = "searched" => sres[1] = PlainValue(prev)

\* C5 witness: a root call returned on a board with six empty cells
RootSearched == outcome = "searched" /\ ~terminal(prev) /\ Empties(prev) = 6

ResultRejectsInvalid ==
    outcome \in {"ok", "InvalidAction", "IndexError"} =>
        LET inside == act[1] \in 0..2 /\ act[2] \in 0..2
            valid == inside /\ At(prev, act[1], act[2]) = EMPTY
        IN  /\ valid <=> outcome = "ok"
            /\ ~valid => outcome = "InvalidAction"

\* the grids reachable from initial_state have as many X as O, or one X more
CountsInOrder(b) == count(b) \in {0, 1}

\* C8 as claimed: on every grid, a legal action changes the player to move
TurnAlternatesAnyGrid == outcome = "ok" => player(board) # player(prev)

\* C8 amended: a legal action changes the player to move on every grid with
\* as many X as O or one X more
TurnAlternates ==
    outcome = "ok" /\ CountsInOrder(prev) => player(board) # player(prev)

\* C8 witness: a move made on such a grid
MovedInOrder == outcome = "ok" /\ CountsInOrder(prev) /\ board = result(prev, act)

\* the line-complete tests in the order rows, columns, diagonals
DiagCheck(b) ==
    At(b, 0, 0) = At(b, 1, 1) /\ At(b, 1, 1) = At(b, 2, 2) /\ At(b, 0, 0) # EMPTY
AntiDiagCheck(b) ==
    At(b, 0, 2) = At(b, 1, 1) /\ At(b, 1, 1) = At(b, 2, 0) /\ At(b, 0, 2) # EMPTY

FirstLineMark(b) ==
    IF RowCheck(b, 0) THEN At(b, 0, 0)
    ELSE IF RowCheck(b, 1) THEN At(b, 1, 0)
    ELSE IF RowCheck(b, 2) THEN At(b, 2, 0)
    ELSE IF ColCheck(b, 0) THEN At(b, 0, 0)
    ELSE IF ColCheck(b, 1) THEN At(b, 0, 1)
    ELSE IF ColCheck(b, 2) THEN At(b, 0, 2)
    ELSE IF DiagCheck(b) THEN At(b, 0, 0)
    ELSE IF AntiDiagCheck(b) THEN At(b, 0, 2)
    ELSE None

\* C9: winner(board) is the mark of the first complete line in the order
\* row 0, 1, 2, column 0, 1, 2, main diagonal, anti-diagonal, None without one
WinnerIsFirstLine == winner(board) = FirstLineMark(board)

\* C9 witness: a grid where the two orders meet different lines first (winner
\* tests column 0 before row 1) and one with two complete rows of different marks
WinnerOrderMatters ==
    \/ ColCheck(board, 0) /\ RowCheck(board, 1) /\ ~RowCheck(board, 0)
    \/ RowCheck(board, 0) /\ RowCheck(board, 2) /\ At(board, 0, 0) # At(board, 2, 0)

====
